---- MODULE Spec2Model ----
(***************************************************************************)
(* AlphaMissense annotation pipeline of AFDB_scripts                       *)
(* (src/AM_data_processing.py): parsing of the variant table, the          *)
(* per-residue aggregation, the fixed-column rewrite of the structure file *)
(* and the batch driver.                                                   *)
(*                                                                         *)
(* Representation.  Text is a sequence of one-character strings, columns   *)
(* are 0-based in the source and 1-based here (column c of the source is   *)
(* element c+1).  Scores are integers in units of 0.0001 (the variant      *)
(* table carries four decimals).  A float that may be NaN is <<>> (NaN) or *)
(* <<v>>.  A call's outcome is a record [kind, tab, exc]: a returned       *)
(* table, a returned None, or a raised exception.                          *)
(***************************************************************************)
EXTENDS Integers, Sequences, FiniteSets, TLC

VARIABLES
    \* ---- variant table -> per-residue table
    am_file,          \* what pd.read_csv(am_url) yields: [ok, rows]
    am_data,          \* extract_am_data's return value
    average_scores,   \* calculate_average_pathogenicity's outcome
    agg_pc,
    \* ---- structure-file annotation
    pdb_content,      \* requests.get(pdb_url).text.splitlines(): [ok, lines]
    average_scores_file,       \* modify_pdb_with_am_data's second argument
    out_file,         \* the output file: [exists, lines, writable]
    line_no,          \* the for loop's position in pdb_content
    pdb_exc,          \* the exception that left modify_pdb_with_am_data
    pdb_pc,
    \* ---- batch driver
    uniprot_ids,      \* the identifiers read from the input file
    world,            \* what the network and the disk answer for each identifier
    id_no,            \* the for loop's position in uniprot_ids
    fs,               \* data_output/AM_scores_AF-<id>-F1-model_v4.pdb, per id
    calls,            \* the calls made so far, in order: <<id, function>>
    drv_exc,          \* the exception that left process_am_from_file
    drv_pc,
    \* ---- extract_pathogenicity_and_plddt
    am_pdb,               \* the file at am_file_path: [exists, lines]
    response,             \* requests.get(pdb_file_url): [ok, lines]
    pathogenicity_scores,
    plddt_scores,
    ext_pc,
    \* ---- process_uniprot_ids_from_file (alphafold_api_downloader.py)
    dl_ids,               \* uniprot_ids of the downloader
    extract_am_files,
    dl_no,                \* the for loop's position in dl_ids
    data,                 \* what sleep_and_retry(fetch_AFDB_data)(uniprot_id) returned
    fetch_calls,          \* calls of fetch_AFDB_data, per position
    fetched,              \* per finished fetch: "None" or "list", what the wrapper returned
    downloaded,           \* per finished iteration: the keys of urls whose file was written
    dl_pc

aggVars == <<am_file, am_data, average_scores, agg_pc>>
pdbVars == <<pdb_content, average_scores_file, out_file, line_no, pdb_exc, pdb_pc>>
drvVars == <<uniprot_ids, world, id_no, fs, calls, drv_exc, drv_pc>>
extVars == <<am_pdb, response, pathogenicity_scores, plddt_scores, ext_pc>>
dlVars == <<dl_ids, extract_am_files, dl_no, data, fetch_calls, fetched, downloaded, dl_pc>>
vars == <<aggVars, pdbVars, drvVars, extVars, dlVars>>

\* ------------------------------------------------------------------ values

NaN == <<>>
Some(v) == <<v>>
isnan(x) == x = NaN

None == [kind |-> "None", tab |-> <<>>, exc |-> ""]
Returned(t) == [kind |-> "table", tab |-> t, exc |-> ""]
Raised(e) == [kind |-> "raise", tab |-> <<>>, exc |-> e]
Unset == [kind |-> "unset", tab |-> <<>>, exc |-> ""]

Max(S) == CHOOSE x \in S : \A y \in S : y <= x

RECURSIVE SumSeq(_)
SumSeq(s) == IF s = <<>> THEN 0 ELSE Head(s) + SumSeq(Tail(s))

\* Python's s[a:b] for 0 <= a <= b (0-based, half-open, clipped to the length).
Slice(s, a, b) == SubSeq(s, a + 1, IF b < Len(s) THEN b ELSE Len(s))

\* Python's s[a:].
SliceFrom(s, a) == SubSeq(s, a + 1, Len(s))

Digit == {"0", "1", "2", "3", "4", "5", "6", "7", "8", "9"}
UpperCase == {"A", "G", "K", "M", "V"}

DigitVal(c) ==
    CASE c = "0" -> 0 [] c = "1" -> 1 [] c = "2" -> 2 [] c = "3" -> 3
      [] c = "4" -> 4 [] c = "5" -> 5 [] c = "6" -> 6 [] c = "7" -> 7
      [] c = "8" -> 8 [] c = "9" -> 9

RECURSIVE DecimalValue(_)
DecimalValue(s) ==
    IF s = <<>> THEN 0
    ELSE 10 * DecimalValue(SubSeq(s, 1, Len(s) - 1)) + DigitVal(s[Len(s)])

\* ------------------------------------------------ extract_am_data (parsing)

\* .str.extract(r'^([A-Z])')[0]: the first character when it is an uppercase letter.
ExtractReference(v) ==
    IF Len(v) > 0 /\ v[1] \in UpperCase THEN v[1] ELSE "NaN"

\* .str.extract('([A-Z])$')[0]: the last character when it is an uppercase letter.
ExtractAlternative(v) ==
    IF Len(v) > 0 /\ v[Len(v)] \in UpperCase THEN v[Len(v)] ELSE "NaN"

\* The leftmost digit alone, as r'([0-9])' would extract.
ExtractFirstDigit(v) ==
    LET starts == {i \in 1..Len(v) : v[i] \in Digit}
    IN  IF starts = {} THEN <<>>
        ELSE <<v[CHOOSE i \in starts : \A j \in starts : i <= j]>>

\* .str.extract(r'([0-9]+)')[0]: the leftmost maximal run of digits, as text.
ExtractDigits(v) ==
    LET starts == {i \in 1..Len(v) : v[i] \in Digit}
    IN  IF starts = {} THEN <<>>
        ELSE LET a == CHOOSE i \in starts : \A j \in starts : i <= j
                 ends == {j \in a..Len(v) : \A k \in a..j : v[k] \in Digit}
             IN  SubSeq(v, a, Max(ends))

\* pd.to_numeric of one extracted cell: NaN stays NaN, digit text becomes its value.
ToNumeric(d) == IF d = <<>> THEN NaN ELSE Some(DecimalValue(d))

ParseRow(r) ==
    [reference_aa        |-> ExtractReference(r.protein_variant),
     residue_number      |-> ToNumeric(ExtractDigits(r.protein_variant)),
     alternative_aa      |-> ExtractAlternative(r.protein_variant),
     pathogenicity_score |-> r.am_pathogenicity]

\* extract_am_data: None when the table cannot be read, else one record per row
\* (no row is filtered out).
extract_am_data(f) ==
    IF ~f.ok THEN None
    ELSE Returned([i \in 1..Len(f.rows) |-> ParseRow(f.rows[i])])

\* ------------------------------------- calculate_average_pathogenicity

\* The mean cut to 4 decimals instead of rounded.
RoundMeanTrunc(sum, n) == sum \div n

\* round(x, 4) of the mean sum/n, in units of 0.0001: nearest, ties to even
\* (numpy's rint of the scaled value; the mean is taken as the exact quotient).
RoundMean(sum, n) ==
    LET q == sum \div n
        r == sum % n
    IN  IF 2 * r < n THEN q
        ELSE IF 2 * r > n THEN q + 1
        ELSE IF q % 2 = 0 THEN q ELSE q + 1

\* groupby(['residue_number']): the keys are the residue numbers present; rows
\* whose key is NaN belong to no group.
GroupKeys(rows) ==
    {rows[i].residue_number[1] : i \in {j \in 1..Len(rows) : ~isnan(rows[j].residue_number)}}

GroupScores(rows, k) ==
    LET idx == {i \in 1..Len(rows) : rows[i].residue_number = Some(k)}
        RECURSIVE Collect(_)
        Collect(i) ==
            IF i > Len(rows) THEN <<>>
            ELSE (IF i \in idx THEN <<rows[i].pathogenicity_score>> ELSE <<>>) \o Collect(i + 1)
    IN  Collect(1)

GroupMean(rows, k) ==
    LET s == GroupScores(rows, k) IN RoundMean(SumSeq(s), Len(s))

\* The residue_number column is int64 only when every row has a number; one NaN
\* makes the column, and so its max(), a float.
ColumnIsFloat(rows) == \E i \in 1..Len(rows) : isnan(rows[i].residue_number)

\* The table: index 0..max (a TLA+ sequence 1..max+1), NaN where no group is.
\* Element i+1 of the sequence is index i of the array.
FillTable(rows) ==
    LET keys == GroupKeys(rows)
        m == Max(keys)
    IN  [i \in 1..(m + 1) |-> IF (i - 1) \in keys THEN Some(GroupMean(rows, i - 1)) ELSE NaN]

calculate_average_pathogenicity(d) ==
    IF d.kind = "None" THEN None
    ELSE IF GroupKeys(d.tab) = {} THEN Raised("TypeError")     \* np.full(nan + 1, ...)
    ELSE IF ColumnIsFloat(d.tab) THEN Raised("TypeError")      \* np.full(3.0, ...)
    ELSE Returned(FillTable(d.tab))

\* Index i of a returned table (0-based, as in the source).
At(t, i) == t[i + 1]

\* ------------------------------------------------ modify_pdb_with_am_data

ResidueStart == 22
ResidueEnd == 26
ScoreStart == 60
ScoreEnd == 66
FieldWidth == 6

Fill(n, c) == [i \in 1..n |-> c]

StartsWith(line, p) == Len(line) >= Len(p) /\ SubSeq(line, 1, Len(p)) = p

IsAtomLine(line) ==
    \/ StartsWith(line, <<"A", "T", "O", "M">>)
    \/ StartsWith(line, <<"H", "E", "T", "A", "T", "M">>)

\* str.strip() of blanks.
RECURSIVE LStrip(_)
LStrip(s) == IF s # <<>> /\ Head(s) = " " THEN LStrip(Tail(s)) ELSE s

RECURSIVE RStrip(_)
RStrip(s) == IF s # <<>> /\ s[Len(s)] = " " THEN RStrip(SubSeq(s, 1, Len(s) - 1)) ELSE s

Strip(s) == LStrip(RStrip(s))

\* int(text): an optional sign and at least one digit, else ValueError.
Unsigned(s) == IF s # <<>> /\ Head(s) \in {"-", "+"} THEN Tail(s) ELSE s

IsIntText(s) == Unsigned(s) # <<>> /\ \A i \in 1..Len(Unsigned(s)) : Unsigned(s)[i] \in Digit

IntValue(s) ==
    IF s # <<>> /\ Head(s) = "-" THEN 0 - DecimalValue(Unsigned(s)) ELSE DecimalValue(Unsigned(s))

ResidueField(line) == Strip(Slice(line, ResidueStart, ResidueEnd))

DigitChar(d) ==
    CASE d = 0 -> "0" [] d = 1 -> "1" [] d = 2 -> "2" [] d = 3 -> "3" [] d = 4 -> "4"
      [] d = 5 -> "5" [] d = 6 -> "6" [] d = 7 -> "7" [] d = 8 -> "8" [] d = 9 -> "9"

RECURSIVE IntToText(_)
IntToText(n) == IF n < 10 THEN <<DigitChar(n)>> ELSE IntToText(n \div 10) \o <<DigitChar(n % 10)>>

\* The values k (units of 0.0001) in [0, 1] that lie halfway between two
\* hundredths and that f"{k/10000:.2f}" rounds up: the double nearest k/10000 is
\* above the halfway point (or is it exactly and the lower hundredth is odd).
\* No score above 1 that the inputs below hold is such a halfway value.
HalfwayRoundedUp ==
    {50, 250, 350, 550, 650, 850, 950, 1150, 1350, 1650, 1950, 2250, 2550, 2650,
     2750, 3150, 3250, 3350, 3750, 3850, 3950, 4050, 4450, 4550, 4650, 5050, 5150,
     5250, 5350, 5450, 5550, 6350, 6450, 6550, 6650, 6750, 6850, 7550, 7650, 7750,
     7850, 7950, 8050, 8750, 8850, 8950, 9050, 9150, 9250, 9350}

\* The value in hundredths that "{value:.2f}" prints, for value = k/10000 >= 0.
Hundredths(k) ==
    IF k % 100 < 50 THEN k \div 100
    ELSE IF k % 100 > 50 THEN k \div 100 + 1
    ELSE IF k \in HalfwayRoundedUp THEN k \div 100 + 1 ELSE k \div 100

\* f"{value:.2f}"
FormatFixed2(k) ==
    LET h == Hundredths(k)
    IN  IntToText(h \div 100) \o <<".">> \o <<DigitChar((h % 100) \div 10), DigitChar(h % 10)>>

\* The padding put after the text instead of before it.
PadRight(s) == IF Len(s) < FieldWidth THEN s \o Fill(FieldWidth - Len(s), " ") ELSE s

\* while len(value_str) < 6: value_str = " " + value_str
PadLeft(s) == IF Len(s) < FieldWidth THEN Fill(FieldWidth - Len(s), " ") \o s ELSE s

ValueStr(k) == PadLeft(FormatFixed2(k))

\* line[:60] + value_str + line[66:]
EditLine(line, k) == Slice(line, 0, ScoreStart) \o ValueStr(k) \o SliceFrom(line, ScoreEnd)

Wrote(text) == [kind |-> "line", text |-> text, exc |-> ""]
LineRaised(e) == [kind |-> "raise", text |-> <<>>, exc |-> e]

\* average_scores_file[residue_number] for residue_number < len: numpy counts a
\* negative index from the end and raises IndexError below -len.
Lookup(t, r) ==
    IF r >= 0 THEN [ok |-> TRUE, v |-> At(t, r)]
    ELSE IF Len(t) + r >= 0 THEN [ok |-> TRUE, v |-> At(t, Len(t) + r)]
    ELSE [ok |-> FALSE, v |-> NaN]

\* One pass of the for loop's body: what is written for `line`, or the exception
\* that leaves the loop.
ProcessLine(line, scores) ==
    IF ~IsAtomLine(line) THEN Wrote(line)
    ELSE IF ~IsIntText(ResidueField(line)) THEN LineRaised("ValueError")
    ELSE IF scores.kind # "table" THEN LineRaised("TypeError")       \* len(None)
    ELSE LET r == IntValue(ResidueField(line))
             t == scores.tab
         IN  IF r < Len(t)
             THEN IF ~Lookup(t, r).ok THEN LineRaised("IndexError")
                  ELSE IF ~isnan(Lookup(t, r).v) THEN Wrote(EditLine(line, Lookup(t, r).v[1]))
                  ELSE Wrote(line)
             ELSE Wrote(line)

\* The whole of modify_pdb_with_am_data on one structure file: the file it
\* leaves and the exception that leaves it ("" when it returns).  `before` is
\* the output file as it was.
RECURSIVE WriteLines(_, _, _)
WriteLines(lines, scores, written) ==
    IF lines = <<>> THEN [lines |-> written, exc |-> ""]
    ELSE LET res == ProcessLine(Head(lines), scores)
         IN  IF res.kind = "line"
             THEN WriteLines(Tail(lines), scores, Append(written, res.text))
             ELSE [lines |-> written, exc |-> res.exc]

modify_pdb_with_am_data(pdb, scores, before, writable) ==
    IF ~writable THEN [file |-> before, exc |-> ""]         \* IOError: logged
    ELSE IF ~pdb.ok
    THEN [file |-> [exists |-> TRUE, lines |-> <<>>], exc |-> "UnboundLocalError"]
    ELSE LET w == WriteLines(pdb.lines, scores, <<>>)
         IN  [file |-> [exists |-> TRUE, lines |-> w.lines], exc |-> w.exc]

\* ---------------------------------------- extract_pathogenicity_and_plddt

\* float(text), for text of digits, one optional point and an optional sign.
IsFloatText(s) ==
    LET u == Unsigned(s)
        points == {i \in 1..Len(u) : u[i] = "."}
    IN  /\ Cardinality(points) <= 1
        /\ \A i \in 1..Len(u) : u[i] \in Digit \cup {"."}
        /\ \E i \in 1..Len(u) : u[i] \in Digit

ScoreField(line) == Strip(Slice(line, ScoreStart, ScoreEnd))

\* float(text) in units of 0.00001 (six columns hold at most five decimals).
FloatValue(s) ==
    LET u == Unsigned(s)
        points == {i \in 1..Len(u) : u[i] = "."}
        p == IF points = {} THEN Len(u) + 1 ELSE CHOOSE i \in points : TRUE
        whole == SubSeq(u, 1, p - 1)
        frac == SubSeq(u, p + 1, Len(u))
        scaled == DecimalValue(whole \o frac \o Fill(5 - Len(frac), "0"))
    IN  IF s # <<>> /\ Head(s) = "-" THEN 0 - scaled ELSE scaled

\* The loop over the lines: the fields appended until the first one that does not
\* parse (the ValueError is logged; what was appended stays in the list).
RECURSIVE ScanScores(_)
ScanScores(lines) ==
    IF lines = <<>> THEN <<>>
    ELSE IF ~IsAtomLine(Head(lines)) THEN ScanScores(Tail(lines))
    ELSE IF ~IsFloatText(ScoreField(Head(lines))) THEN <<>>
    ELSE <<FloatValue(ScoreField(Head(lines)))>> \o ScanScores(Tail(lines))

\* Lines 162-173: the annotated file; FileNotFoundError gives the empty list.
PathogenicityScores(file) == IF file.exists THEN ScanScores(file.lines) ELSE <<>>

\* Lines 176-191: the structure file, fetched again; a RequestException gives
\* the empty list.
PlddtScores(pdb, refetch_ok) == IF pdb.ok /\ refetch_ok THEN ScanScores(pdb.lines) ELSE <<>>

\* plots.plot_scores: pd.DataFrame(data) raises ValueError when its columns
\* differ in length (src/plots.py:61-66).
plot_scores(pathogenicity, plddt) ==
    IF Len(pathogenicity) = Len(plddt) THEN "" ELSE "ValueError"

\* ------------------------------------------------- process_am_from_file

\* One iteration of the loop over uniprot_ids (lines 213-238) for identifier
\* number i, in world w, with the annotated file `before`: the calls made, the
\* annotated file afterwards, and the exception that leaves the loop ("" when
\* the iteration ends).  Only requests' RequestException is caught by the loop,
\* and none reaches it: every callee catches its own.
Iteration(i, w, before) ==
    LET c0 == <<<<i, "fetch_AFDB_data">>>>
    IN
    IF ~w.fetch_ok THEN [calls |-> c0, file |-> before, exc |-> ""]
    ELSE IF ~w.has_am_url THEN [calls |-> c0, file |-> before, exc |-> ""]   \* continue
    ELSE
    LET d   == extract_am_data(w.am_file)
        c1  == Append(c0, <<i, "extract_am_data">>)
        avg == calculate_average_pathogenicity(d)
        c2  == Append(c1, <<i, "calculate_average_pathogenicity">>)
        m   == modify_pdb_with_am_data(w.pdb, avg, before, w.writable)
        c3  == Append(c2, <<i, "modify_pdb_with_am_data">>)
        c4  == Append(c3, <<i, "plot_am_heatmap">>)
        annotated == d.kind # "None"
        file == IF annotated THEN m.file ELSE before
        c5  == Append(IF annotated THEN c4 ELSE c1, <<i, "extract_pathogenicity_and_plddt">>)
        c6  == Append(c5, <<i, "plot_scores">>)
        p   == plot_scores(PathogenicityScores(file), PlddtScores(w.pdb, w.refetch_ok))
    IN
    IF annotated /\ avg.kind = "raise" THEN [calls |-> c2, file |-> before, exc |-> avg.exc]
    ELSE IF annotated /\ m.exc # "" THEN [calls |-> c3, file |-> m.file, exc |-> m.exc]
    ELSE [calls |-> c6, file |-> file, exc |-> p]

\* ------------------------------------------- alphafold_api_downloader.py

\* Python values of `data`: None, or the JSON list of the response.
Unbound == [kind |-> "unbound", items |-> <<>>]
NoData == [kind |-> "None", items |-> <<>>]
JsonList(items) == [kind |-> "list", items |-> items]

\* `if data:` -- None and the empty list are falsy.
Truthy(d) == d.kind = "list" /\ d.items # <<>>

\* A string value: whether it starts with "http", and what it says.  None is
\* NullValue.
Url(key) == [http |-> TRUE, text |-> key]
Message(text) == [http |-> FALSE, text |-> text]
NullValue == [http |-> FALSE, text |-> "None"]

FetchReturned(d) == [kind |-> "return", data |-> d, exc |-> ""]
FetchRaised(e) == [kind |-> "raise", data |-> Unbound, exc |-> e]

\* fetch_AFDB_data without its except clause: the RequestException leaves it.
fetch_AFDB_data_raising(answer) ==
    IF answer.kind = "json" THEN FetchReturned(JsonList(answer.json))
    ELSE FetchRaised(answer.kind)

\* fetch_AFDB_data on what the network answers: requests.get or
\* raise_for_status raising a RequestException gives None; a body that is no
\* JSON raises in response.json(), a RequestException (None again) with
\* requests >= 2.27 and a plain ValueError, which leaves the function, before.
fetch_AFDB_data(answer) ==
    IF answer.kind = "RequestException" THEN FetchReturned(NoData)
    ELSE IF answer.kind = "ValueError" THEN FetchRaised("ValueError")
    ELSE FetchReturned(JsonList(answer.json))

\* data[0].get(key, default): the entry maps the keys it has to "url" or "null".
Get(entry, key, default) ==
    IF key \in DOMAIN entry
    THEN IF entry[key] = "null" THEN NullValue ELSE Url(key)
    ELSE Message(default)

\* extract_urls: the values of the dict it returns, in insertion order
\* (urls.values()), each with the key it is stored under.
extract_urls(d, with_am_files) ==
    IF Truthy(d)
    THEN LET entry == d.items[1]
         IN  << [key |-> "alphaMissenseUrl", value |-> Get(entry, "amAnnotationsUrl", "No AlphaMissense data")],
                [key |-> "pdbUrl", value |-> Get(entry, "pdbUrl", "No PDB URL")],
                [key |-> "cifUrl", value |-> Get(entry, "cifUrl", "No PDB URL")],
                [key |-> "paeImageUrl", value |-> Get(entry, "paeImageUrl", "No PDB URL")] >>
             \o (IF with_am_files
                 THEN << [key |-> "amAnnotationsHg19Url",
                          value |-> Get(entry, "amAnnotationsHg19Url", "No amAnnotationsHg19Url data")],
                         [key |-> "amAnnotationsHg38Url",
                          value |-> Get(entry, "amAnnotationsHg38Url", "No amAnnotationsHg38Url data")] >>
                 ELSE <<>>)
    ELSE << [key |-> "alphaMissenseUrl", value |-> Message("Error: No data provided")],
            [key |-> "pdbUrl", value |-> Message("Error: No data provided")] >>

\* download_file: whether a file is written.  A value that is None or does not
\* start with "http" is skipped; a RequestException is logged.
download_file(url, server_ok) == url.http /\ server_ok

\* for url in urls.values(): download_file(url, output_dir) -- the keys whose
\* file is written when the file server answers the keys in `served`.
DownloadAll(urls, served) ==
    {urls[j].key : j \in {n \in 1..Len(urls) : download_file(urls[n].value, urls[n].key \in served)}}

\* ---------------------------------------------------------------- bounds

MaxRows == 3
MaxLines == 2
MaxIds == 2
MaxDigits == 3
ScoreMax == 10000          \* scores 0.0000 .. 1.0000 in steps of 0.0001
MaxAttempts == 3           \* passes of sleep_and_retry's loop that are followed

\* ------------------------------------------------- inputs: variant tables

Variants ==
    { <<"M", "1", "V">>, <<"M", "1", "K">>, <<"A", "2", "G">>,
      <<"M", "0", "V">>,            \* residue number 0
      <<"1", "V">>,                 \* no leading letter
      <<"M", "V">> }                \* no digit run

ScoreValues == {1000, 3000, 9000}

CsvRows == [protein_variant : Variants, am_pathogenicity : ScoreValues]

SeqsUpTo(S, n) == UNION {[1..k -> S] : k \in 0..n}

\* Identifiers <letter><digits><letter> with every digit run of up to MaxDigits
\* digits, leading zeros included.
DigitRuns == UNION {[1..k -> {"0", "1", "2"}] : k \in 1..MaxDigits}

LetterDigitsLetter == {<<a>> \o d \o <<b>> : a \in {"M", "V"}, b \in {"M", "V"}, d \in DigitRuns}

AmFiles ==
    {[ok |-> FALSE, rows |-> <<>>]}
    \cup {[ok |-> TRUE, rows |-> r] : r \in SeqsUpTo(CsvRows, MaxRows)}
    \cup {[ok |-> TRUE, rows |-> <<[protein_variant |-> v, am_pathogenicity |-> 1000]>>] :
             v \in LetterDigitsLetter}

\* ------------------------------------------------------------ idle parts

IdleAgg ==
    /\ am_file = [ok |-> FALSE, rows |-> <<>>]
    /\ am_data = Unset
    /\ average_scores = Unset
    /\ agg_pc = "idle"

IdlePdb ==
    /\ pdb_content = [ok |-> FALSE, lines |-> <<>>]
    /\ average_scores_file = Unset
    /\ out_file = [exists |-> FALSE, lines |-> <<>>, writable |-> TRUE]
    /\ line_no = 0
    /\ pdb_exc = ""
    /\ pdb_pc = "idle"

IdleDrv ==
    /\ uniprot_ids = <<>>
    /\ world = <<>>
    /\ id_no = 0
    /\ fs = <<>>
    /\ calls = <<>>
    /\ drv_exc = ""
    /\ drv_pc = "idle"

IdleExt ==
    /\ am_pdb = [exists |-> FALSE, lines |-> <<>>]
    /\ response = [ok |-> FALSE, lines |-> <<>>]
    /\ pathogenicity_scores = <<>>
    /\ plddt_scores = <<>>
    /\ ext_pc = "idle"

IdleDl ==
    /\ dl_ids = <<>>
    /\ extract_am_files = FALSE
    /\ dl_no = 0
    /\ data = Unbound
    /\ fetch_calls = <<>>
    /\ fetched = <<>>
    /\ downloaded = <<>>
    /\ dl_pc = "idle"

\* ------------------------------------ specification: table -> score table

AggInit ==
    /\ am_file \in AmFiles
    /\ am_data = Unset
    /\ average_scores = Unset
    /\ agg_pc = "start"
    /\ IdlePdb
    /\ IdleDrv
    /\ IdleExt
    /\ IdleDl

ExtractAmData ==
    /\ agg_pc = "start"
    /\ am_data' = extract_am_data(am_file)
    /\ agg_pc' = "extracted"
    /\ UNCHANGED <<am_file, average_scores, pdbVars, drvVars, extVars, dlVars>>

CalculateAverage ==
    /\ agg_pc = "extracted"
    /\ average_scores' = calculate_average_pathogenicity(am_data)
    /\ agg_pc' = "done"
    /\ UNCHANGED <<am_file, am_data, pdbVars, drvVars, extVars, dlVars>>

AggNext == ExtractAmData \/ CalculateAverage

SpecAgg == AggInit /\ [][AggNext]_vars

\* ------------------------------------------------ inputs: structure files

Take(s, n) == SubSeq(s, 1, IF n < Len(s) THEN n ELSE Len(s))

\* A 70-column record: name, residue field in [22,26), a B-factor " 91.50" in
\* [60,66), cut to len columns.
Record(name, residue, len) ==
    Take(name \o Fill(ResidueStart - Len(name), "a") \o residue
              \o Fill(ScoreStart - ResidueEnd, "c")
              \o <<" ", "9", "1", ".", "5", "0">> \o <<"t", "t", "t", "t">>, len)

ATOM == <<"A", "T", "O", "M">>
HETATM == <<"H", "E", "T", "A", "T", "M">>
REMARK == <<"R", "E", "M", "A", "R", "K">>

PdbLines ==
    { Record(ATOM,   <<" ", " ", " ", "1">>, 70),
      Record(ATOM,   <<" ", " ", " ", "2">>, 70),
      Record(HETATM, <<" ", " ", " ", "1">>, 70),
      Record(REMARK, <<" ", " ", " ", "1">>, 70),     \* not an atom line
      Record(ATOM,   <<" ", " ", " ", "0">>, 70),     \* residue 0
      Record(ATOM,   <<" ", " ", "9", "9">>, 70),     \* beyond every table
      Record(ATOM,   <<" ", " ", "-", "1">>, 70),     \* negative
      Record(ATOM,   <<" ", " ", "-", "9">>, 70),     \* below -len of every table
      Record(ATOM,   <<" ", " ", " ", "A">>, 70),     \* not a number
      Record(ATOM,   <<" ", " ", " ", "1">>, 63),     \* ends inside [60,66)
      Record(ATOM,   <<" ", " ", " ", "1">>, 40),     \* ends before column 60
      Record(ATOM,   <<" ", " ", " ", "1">>, 4) }     \* no residue field at all

ScoreTables ==
    { <<NaN, Some(2000), Some(9000)>>,
      <<NaN, Some(1234)>>,
      <<NaN, NaN, Some(5000)>>,
      <<NaN, Some(10000000)>> }                       \* a score of 1000.0

ScoreArgs == {None} \cup {Returned(t) : t \in ScoreTables}

\* ------------------------------- specification: modify_pdb_with_am_data

PdbInit ==
    /\ pdb_content \in [ok : BOOLEAN, lines : SeqsUpTo(PdbLines, MaxLines)]
    /\ (~pdb_content.ok => pdb_content.lines = <<>>)
    /\ average_scores_file \in ScoreArgs
    /\ out_file \in [exists : {FALSE}, lines : {<<>>}, writable : BOOLEAN]
    /\ line_no = 0
    /\ pdb_exc = ""
    /\ pdb_pc = "start"
    /\ IdleAgg
    /\ IdleDrv
    /\ IdleExt
    /\ IdleDl

\* Lines 110-127: the fetch (a RequestException is logged and swallowed, which
\* leaves pdb_content unbound), then open(output_file, "w"), then the loop's start.
OpenOutput ==
    /\ pdb_pc = "start"
    /\ IF ~out_file.writable
       THEN /\ pdb_pc' = "done"                   \* IOError from open(): logged
            /\ UNCHANGED <<out_file, line_no, pdb_exc>>
       ELSE /\ out_file' = [out_file EXCEPT !.exists = TRUE, !.lines = <<>>]
            /\ IF ~pdb_content.ok
               THEN /\ pdb_exc' = "UnboundLocalError"
                    /\ pdb_pc' = "raised"
                    /\ UNCHANGED line_no
               ELSE /\ pdb_pc' = "loop"
                    /\ line_no' = 1
                    /\ UNCHANGED pdb_exc
    /\ UNCHANGED <<pdb_content, average_scores_file, aggVars, drvVars, extVars, dlVars>>

\* Lines 127-140: one iteration of the loop.
WriteLine ==
    /\ pdb_pc = "loop"
    /\ line_no <= Len(pdb_content.lines)
    /\ LET res == ProcessLine(pdb_content.lines[line_no], average_scores_file)
       IN  IF res.kind = "line"
           THEN /\ out_file' = [out_file EXCEPT !.lines = Append(@, res.text)]
                /\ line_no' = line_no + 1
                /\ UNCHANGED <<pdb_exc, pdb_pc>>
           ELSE /\ pdb_exc' = res.exc               \* not an IOError: propagates
                /\ pdb_pc' = "raised"
                /\ UNCHANGED <<out_file, line_no>>
    /\ UNCHANGED <<pdb_content, average_scores_file, aggVars, drvVars, extVars, dlVars>>

\* The loop's end: the file is closed and the function returns.
CloseOutput ==
    /\ pdb_pc = "loop"
    /\ line_no > Len(pdb_content.lines)
    /\ pdb_pc' = "done"
    /\ UNCHANGED <<pdb_content, average_scores_file, out_file, line_no, pdb_exc, aggVars, drvVars, extVars, dlVars>>

PdbNext == OpenOutput \/ WriteLine \/ CloseOutput

SpecPdb == PdbInit /\ [][PdbNext]_vars

\* --------------------------------------------------- inputs: the batch

IdNames == {"P1", "P2"}

\* Identifier lists up to renaming: the same identifier twice, or two.
IdLists == {ids \in SeqsUpTo(IdNames, MaxIds) :
               \A i \in 1..Len(ids) : ids[i] = "P1" \/ (i > 1 /\ ids[i] = "P2")}

DrvAmFiles ==
    { [ok |-> FALSE, rows |-> <<>>],                   \* the table cannot be read
      [ok |-> TRUE, rows |-> <<[protein_variant |-> <<"M", "1", "V">>, am_pathogenicity |-> 1000],
                               [protein_variant |-> <<"A", "2", "G">>, am_pathogenicity |-> 9000]>>] }

DrvPdbs ==
    { [ok |-> FALSE, lines |-> <<>>],                  \* the structure file cannot be fetched
      [ok |-> TRUE, lines |-> <<Record(REMARK, <<" ", " ", " ", "1">>, 70),
                                Record(ATOM,   <<" ", " ", " ", "1">>, 70),
                                Record(ATOM,   <<" ", " ", " ", "2">>, 70)>>],
      [ok |-> TRUE, lines |-> <<Record(ATOM,   <<" ", " ", " ", "1">>, 70),
                                Record(ATOM,   <<" ", " ", " ", "A">>, 70)>>] }

NoWorld ==
    [fetch_ok |-> FALSE, has_am_url |-> FALSE, am_file |-> [ok |-> FALSE, rows |-> <<>>],
     pdb |-> [ok |-> FALSE, lines |-> <<>>], refetch_ok |-> FALSE, writable |-> TRUE]

\* What the API, the network and the disk answer for one identifier.  Answers
\* that are never asked for (after a failed metadata fetch, or without an
\* AlphaMissense URL) are fixed.
Worlds ==
    { NoWorld, [NoWorld EXCEPT !.fetch_ok = TRUE] } \cup
    [fetch_ok : {TRUE}, has_am_url : {TRUE}, am_file : DrvAmFiles, pdb : DrvPdbs,
     refetch_ok : BOOLEAN, writable : BOOLEAN]

NoFile == [exists |-> FALSE, lines |-> <<>>]

\* ----------------------------------- specification: process_am_from_file

DrvInit ==
    /\ uniprot_ids \in IdLists
    /\ world \in [1..Len(uniprot_ids) -> Worlds]
    /\ id_no = 1
    /\ fs = [n \in IdNames |-> NoFile]
    /\ calls = <<>>
    /\ drv_exc = ""
    /\ drv_pc = "loop"
    /\ IdleAgg
    /\ IdlePdb
    /\ IdleExt
    /\ IdleDl

\* Lines 213-238: one iteration of the loop; an exception other than
\* RequestException leaves process_am_from_file.
ProcessProtein ==
    /\ drv_pc = "loop"
    /\ id_no <= Len(uniprot_ids)
    /\ LET it == Iteration(id_no, world[id_no], fs[uniprot_ids[id_no]])
       IN  /\ calls' = calls \o it.calls
           /\ fs' = [fs EXCEPT ![uniprot_ids[id_no]] = it.file]
           /\ drv_exc' = it.exc
           /\ IF it.exc = ""
              THEN id_no' = id_no + 1 /\ UNCHANGED drv_pc
              ELSE drv_pc' = "aborted" /\ UNCHANGED id_no
    /\ UNCHANGED <<uniprot_ids, world, aggVars, pdbVars, extVars, dlVars>>

\* The loop's end.
FinishBatch ==
    /\ drv_pc = "loop"
    /\ id_no > Len(uniprot_ids)
    /\ drv_pc' = "done"
    /\ UNCHANGED <<uniprot_ids, world, id_no, fs, calls, drv_exc, aggVars, pdbVars, extVars, dlVars>>

DrvNext == ProcessProtein \/ FinishBatch

SpecDrv == DrvInit /\ [][DrvNext]_vars

\* -------------------- specification: extract_pathogenicity_and_plddt

\* A line with `field` in columns [60,66).
WithScoreField(line, field) == Slice(line, 0, ScoreStart) \o field \o SliceFrom(line, ScoreEnd)

ExtLines ==
    { Record(ATOM,   <<" ", " ", " ", "1">>, 70),                       \* " 91.50"
      Record(HETATM, <<" ", " ", " ", "2">>, 70),
      EditLine(Record(ATOM, <<" ", " ", " ", "1">>, 70), 1234),         \* "  0.12"
      Record(REMARK, <<" ", " ", " ", "1">>, 70),                       \* not an atom line
      WithScoreField(Record(ATOM, <<" ", " ", " ", "3">>, 70),
                     <<" ", " ", "a", "b", "c", " ">>),                 \* not a number
      Record(ATOM,   <<" ", " ", " ", "1">>, 40) }                      \* no columns [60,66)

ExtInit ==
    /\ am_pdb \in [exists : BOOLEAN, lines : SeqsUpTo(ExtLines, MaxLines)]
    /\ (~am_pdb.exists => am_pdb.lines = <<>>)
    /\ response \in [ok : BOOLEAN, lines : SeqsUpTo(ExtLines, MaxLines)]
    /\ (~response.ok => response.lines = <<>>)
    /\ pathogenicity_scores = <<>>
    /\ plddt_scores = <<>>
    /\ ext_pc = "start"
    /\ IdleAgg
    /\ IdlePdb
    /\ IdleDrv
    /\ IdleDl

\* Lines 161-173.
ReadAnnotatedFile ==
    /\ ext_pc = "start"
    /\ pathogenicity_scores' = PathogenicityScores(am_pdb)
    /\ ext_pc' = "fetch"
    /\ UNCHANGED <<am_pdb, response, plddt_scores, aggVars, pdbVars, drvVars, dlVars>>

\* Lines 175-193.
FetchPlddt ==
    /\ ext_pc = "fetch"
    /\ plddt_scores' = PlddtScores(response, TRUE)
    /\ ext_pc' = "done"
    /\ UNCHANGED <<am_pdb, response, pathogenicity_scores, aggVars, pdbVars, drvVars, dlVars>>

ExtNext == ReadAnnotatedFile \/ FetchPlddt

SpecExt == ExtInit /\ [][ExtNext]_vars

\* --------------------- specification: the score field, every score in [0,1]

\* One atom line of residue 1: 70 columns, exactly 66, a HETATM record, and a
\* line that ends inside the score columns.
FmtLines ==
    { Record(ATOM,   <<" ", " ", " ", "1">>, 70),
      Record(ATOM,   <<" ", " ", " ", "1">>, 66),
      Record(HETATM, <<" ", " ", " ", "1">>, 70),
      Record(ATOM,   <<" ", " ", " ", "1">>, 63) }

\* np.full(max + 1, np.nan) with the one residue's mean at index 1.
FmtTables == {<<NaN, Some(k)>> : k \in 0..ScoreMax}

FmtInit ==
    /\ pdb_content \in [ok : {TRUE}, lines : {<<l>> : l \in FmtLines}]
    /\ average_scores_file \in {Returned(t) : t \in FmtTables}
    /\ out_file = [exists |-> FALSE, lines |-> <<>>, writable |-> TRUE]
    /\ line_no = 0
    /\ pdb_exc = ""
    /\ pdb_pc = "start"
    /\ IdleAgg
    /\ IdleDrv
    /\ IdleExt
    /\ IdleDl

SpecFmt == FmtInit /\ [][PdbNext]_vars

\* ------------------------ specification: process_uniprot_ids_from_file

\* Entries of the API's JSON list: every URL; no AlphaMissense data (a null
\* amAnnotationsUrl, no Hg19/Hg38 keys); no key at all.
JsonEntries ==
    { [k \in {"amAnnotationsUrl", "pdbUrl", "cifUrl", "paeImageUrl",
              "amAnnotationsHg19Url", "amAnnotationsHg38Url"} |-> "url"],
      [k \in {"amAnnotationsUrl", "pdbUrl", "cifUrl", "paeImageUrl"} |->
          IF k = "amAnnotationsUrl" THEN "null" ELSE "url"],
      [k \in {} |-> "url"] }

\* What the network answers one call of fetch_AFDB_data.
Answers ==
    { [kind |-> "RequestException", json |-> <<>>],
      [kind |-> "ValueError", json |-> <<>>],
      [kind |-> "json", json |-> <<>>] }
    \cup {[kind |-> "json", json |-> <<entry>>] : entry \in JsonEntries}

\* The keys whose download succeeds: all, none, the structure files only.
Served ==
    { {"alphaMissenseUrl", "pdbUrl", "cifUrl", "paeImageUrl", "amAnnotationsHg19Url", "amAnnotationsHg38Url"},
      {},
      {"pdbUrl", "cifUrl"} }

\* Lines 107-114: the identifier list is read (split(',') gives at least one).
DlInit ==
    /\ dl_ids \in IdLists \ {<<>>}
    /\ extract_am_files \in BOOLEAN
    /\ dl_no = 1
    /\ data = Unbound
    /\ fetch_calls = [i \in 1..Len(dl_ids) |-> 0]
    /\ fetched = <<>>
    /\ downloaded = <<>>
    /\ dl_pc = "fetch"
    /\ IdleAgg
    /\ IdlePdb
    /\ IdleDrv
    /\ IdleExt

\* Line 116, one pass of sleep_and_retry's `while True` (lines 11-15): func is
\* called; its return value is returned; a RequestException it raises is
\* followed by the sleep and another pass; any other exception leaves the
\* wrapper and, not caught at line 122, the batch.
FetchData ==
    /\ dl_pc = "fetch"
    /\ dl_no <= Len(dl_ids)
    /\ fetch_calls[dl_no] < MaxAttempts
    /\ \E answer \in Answers :
          LET r == fetch_AFDB_data(answer)
          IN  /\ fetch_calls' = [fetch_calls EXCEPT ![dl_no] = @ + 1]
              /\ IF r.kind = "return"
                 THEN /\ data' = r.data
                      /\ fetched' = Append(fetched, r.data.kind)
                      /\ dl_pc' = "download"
                 ELSE IF r.exc = "RequestException"
                 THEN UNCHANGED <<data, fetched, dl_pc>>          \* time.sleep(timeout)
                 ELSE /\ dl_pc' = "aborted"
                      /\ UNCHANGED <<data, fetched>>
    /\ UNCHANGED <<dl_ids, extract_am_files, dl_no, downloaded, aggVars, pdbVars, drvVars, extVars>>

\* Lines 117-120: extract_urls, then download_file for every value.
DownloadFiles ==
    /\ dl_pc = "download"
    /\ \E served \in Served :
          downloaded' = Append(downloaded, DownloadAll(extract_urls(data, extract_am_files), served))
    /\ dl_no' = dl_no + 1
    /\ dl_pc' = "fetch"
    /\ UNCHANGED <<dl_ids, extract_am_files, data, fetch_calls, fetched, aggVars, pdbVars, drvVars, extVars>>

\* The for loop's end.
EndOfIds ==
    /\ dl_pc = "fetch"
    /\ dl_no > Len(dl_ids)
    /\ dl_pc' = "done"
    /\ UNCHANGED <<dl_ids, extract_am_files, dl_no, data, fetch_calls, fetched, downloaded,
                   aggVars, pdbVars, drvVars, extVars>>

DlNext == FetchData \/ DownloadFiles \/ EndOfIds

SpecDl == DlInit /\ [][DlNext]_vars

\* The interpreter keeps running the batch; a call blocks for a bounded time.
SpecDlFair == SpecDl /\ WF_vars(DlNext)

\* ================================================================= claims

\* The rows of the variant table that carry residue number k (1-based row indices).
RowsOfResidue(k) ==
    {i \in 1..Len(am_data.tab) : am_data.tab[i].residue_number = Some(k)}

ScoreSumOf(I) == SumSeq([j \in 1..Len(am_file.rows) |->
                            IF j \in I THEN am_file.rows[j].am_pathogenicity ELSE 0])

\* v is a value with 4 decimals nearest to the mean of the rows I.
NearestToMean(v, I) ==
    LET n == Cardinality(I)
        d == n * v - ScoreSumOf(I)
    IN  n > 0 /\ 2 * d <= n /\ 2 * (0 - d) <= n

AllHaveResidue == \A i \in 1..Len(am_data.tab) : ~isnan(am_data.tab[i].residue_number)

SpecExampleRows ==
    << [protein_variant |-> <<"M", "1", "V">>, am_pathogenicity |-> 1000],
       [protein_variant |-> <<"M", "1", "K">>, am_pathogenicity |-> 3000],
       [protein_variant |-> <<"A", "2", "G">>, am_pathogenicity |-> 9000] >>

\* C3: for every non-empty set of variant records (each with a residue number),
\* calculate_average_pathogenicity returns a table of length max(residue_number)+1;
\* every index with at least one record holds the mean of that residue's scores
\* rounded to 4 decimals, every other index holds NaN; M1V=0.1, M1K=0.3, A2G=0.9
\* give [NaN, 0.2, 0.9].
C3_MeanTable ==
    (agg_pc = "done" /\ am_data.kind = "table" /\ am_data.tab # <<>> /\ AllHaveResidue) =>
        /\ average_scores.kind = "table"
        /\ LET t == average_scores.tab
               residues == {am_data.tab[i].residue_number[1] : i \in 1..Len(am_data.tab)}
           IN  /\ Len(t) = Max(residues) + 1
               /\ \A k \in 0..Max(residues) :
                     IF RowsOfResidue(k) # {}
                     THEN ~isnan(At(t, k)) /\ NearestToMean(At(t, k)[1], RowsOfResidue(k))
                     ELSE isnan(At(t, k))
        /\ (am_file.rows = SpecExampleRows =>
                average_scores.tab = <<NaN, Some(2000), Some(9000)>>)

C3_Witness ==
    /\ agg_pc = "done"
    /\ am_file.rows = SpecExampleRows
    /\ average_scores = Returned(<<NaN, Some(2000), Some(9000)>>)

\* C6: given a table with no valid record (no rows, or rows that all lack a
\* residue number), calculate_average_pathogenicity returns None; it neither
\* raises nor returns an empty table.
C6_EmptyGivesNone ==
    (/\ agg_pc = "done"
     /\ am_data.kind = "table"
     /\ \A i \in 1..Len(am_data.tab) : isnan(am_data.tab[i].residue_number))
        => average_scores = None

\* A variant identifier of the form <letter><digits><letter>.
WellFormed(v) ==
    /\ Len(v) >= 3
    /\ v[1] \in UpperCase
    /\ v[Len(v)] \in UpperCase
    /\ \A i \in 2..(Len(v) - 1) : v[i] \in Digit

WellFormedRowsOf(k) ==
    {i \in RowsOfResidue(k) : WellFormed(am_file.rows[i].protein_variant)}

\* C8: a row whose identifier is not <letter><digits><letter> contributes to no
\* slot of the score table: every slot of a returned table is what the
\* well-formed rows alone give it (NaN when no well-formed row names the index).
C8_MalformedRowsExcluded ==
    (agg_pc = "done" /\ average_scores.kind = "table") =>
        \A k \in 0..(Len(average_scores.tab) - 1) :
            IF WellFormedRowsOf(k) = {}
            THEN isnan(At(average_scores.tab, k))
            ELSE /\ ~isnan(At(average_scores.tab, k))
                 /\ NearestToMean(At(average_scores.tab, k)[1], WellFormedRowsOf(k))

\* C9: whenever calculate_average_pathogenicity returns a table, its index 0
\* holds NaN, also when a record carries residue number 0.
C9_IndexZeroNoData ==
    (agg_pc = "done" /\ average_scores.kind = "table") =>
        isnan(At(average_scores.tab, 0))

\* ------------------------------------------------------------ round trip

\* reference_aa, residue_number and alternative_aa of a parsed row, concatenated
\* (the number written in decimal).
Reassembled(row) ==
    (IF row.reference_aa = "NaN" THEN <<>> ELSE <<row.reference_aa>>)
    \o (IF isnan(row.residue_number) THEN <<>> ELSE IntToText(row.residue_number[1]))
    \o (IF row.alternative_aa = "NaN" THEN <<>> ELSE <<row.alternative_aa>>)

\* The digit run of a well-formed identifier is the decimal writing of a number:
\* a single digit, or a run that does not start with 0.
NoLeadingZero(v) == Len(v) = 3 \/ v[2] # "0"

\* C11 as claimed: for every identifier <letter><digits><letter>, leading zeros
\* included, the three fields extract_am_data produces concatenate to the identifier.
C11_RoundTripAnyDigits ==
    am_data.kind = "table" =>
        \A i \in 1..Len(am_data.tab) :
            WellFormed(am_file.rows[i].protein_variant)
                => Reassembled(am_data.tab[i]) = am_file.rows[i].protein_variant

\* C11 as amended: for every identifier <letter><digits><letter> whose digit run
\* has no leading zero, the three fields extract_am_data produces concatenate to
\* the identifier.
C11_RoundTrip ==
    am_data.kind = "table" =>
        \A i \in 1..Len(am_data.tab) :
            (WellFormed(am_file.rows[i].protein_variant)
             /\ NoLeadingZero(am_file.rows[i].protein_variant))
                => Reassembled(am_data.tab[i]) = am_file.rows[i].protein_variant

C11_Witness ==
    /\ agg_pc = "extracted"
    /\ am_file.rows = <<[protein_variant |-> <<"M", "1", "2", "V">>, am_pathogenicity |-> 1000]>>
    /\ Reassembled(am_data.tab[1]) = <<"M", "1", "2", "V">>

\* --------------------------------------------------- structure annotation

\* The atom line's residue number is an index of the table that holds a score.
HasScore(line, t) ==
    /\ IsAtomLine(line)
    /\ IsIntText(ResidueField(line))
    /\ IntValue(ResidueField(line)) \in 0..(Len(t) - 1)
    /\ ~isnan(At(t, IntValue(ResidueField(line))))

\* The atom line's residue number is read, and is no index of the table or the
\* index of a NaN slot.
HasNoScore(line, t) ==
    /\ IsAtomLine(line)
    /\ IsIntText(ResidueField(line))
    /\ ~HasScore(line, t)

\* C1: the output of modify_pdb_with_am_data differs from the input only in
\* columns [60,66) of atom lines whose residue number has a score in the table:
\* every other line is identical, and so are columns [0,60) and [66,end) of the
\* qualifying lines, whatever the line's length and the table.
C1_OnlyScoreColumnsChange ==
    average_scores_file.kind = "table" =>
        \A i \in 1..Len(out_file.lines) :
            LET in  == pdb_content.lines[i]
                out == out_file.lines[i]
            IN  IF HasScore(in, average_scores_file.tab)
                THEN /\ Slice(out, 0, ScoreStart) = Slice(in, 0, ScoreStart)
                     /\ SliceFrom(out, ScoreEnd) = SliceFrom(in, ScoreEnd)
                ELSE out = in

\* C2: an atom line whose residue number is no index in 0..len(table)-1 (too
\* large, or negative), or whose slot holds NaN, is written unchanged.
C2_NoScoreLineUnchanged ==
    average_scores_file.kind = "table" =>
        /\ \A i \in 1..Len(out_file.lines) :
              HasNoScore(pdb_content.lines[i], average_scores_file.tab)
                  => out_file.lines[i] = pdb_content.lines[i]
        /\ (pdb_pc = "raised" /\ pdb_content.ok)
              => ~HasNoScore(pdb_content.lines[line_no], average_scores_file.tab)

\* C7: invoked with None in place of a score table, modify_pdb_with_am_data
\* creates or overwrites no output file.
C7_NoFileForNone ==
    average_scores_file.kind = "None" => ~out_file.exists

\* C10: the output has exactly one line per input line, in the same order; line i
\* of the output is derived from line i of the input; none is inserted or dropped.
C10_OneLinePerLine ==
    (/\ pdb_pc \in {"done", "raised"}
     /\ pdb_content.ok
     /\ out_file.exists
     /\ average_scores_file.kind = "table")
        => /\ Len(out_file.lines) = Len(pdb_content.lines)
           /\ \A i \in 1..Len(out_file.lines) :
                 Slice(out_file.lines[i], 0, ResidueEnd) = Slice(pdb_content.lines[i], 0, ResidueEnd)

\* ----------------------------------------------------------- batch driver

Called(i, f) == \E j \in 1..Len(calls) : calls[j] = <<i, f>>

\* C4: process_am_from_file never aborts the run because one protein failed:
\* whatever fails for an identifier, every later identifier of the list is
\* still processed.
C4_BatchContinues ==
    drv_pc \in {"done", "aborted"} =>
        \A i \in 1..Len(uniprot_ids) : Called(i, "fetch_AFDB_data")

\* C5: when extract_am_data returns None for a protein, the driver calls none of
\* modify_pdb_with_am_data, plot_am_heatmap and plot_scores for it, and does
\* not crash.
C5_NoDataSkipsAll ==
    \A i \in 1..Len(uniprot_ids) :
        (Called(i, "extract_am_data") /\ ~world[i].am_file.ok) =>
            /\ ~Called(i, "modify_pdb_with_am_data")
            /\ ~Called(i, "plot_am_heatmap")
            /\ ~Called(i, "plot_scores")
            /\ ~(drv_pc = "aborted" /\ id_no = i)

\* ------------------------------------------------------- score extraction

\* Some atom line of the text has columns [60,66) that float() rejects.
HasBadScoreField(lines) ==
    \E i \in 1..Len(lines) : IsAtomLine(lines[i]) /\ ~IsFloatText(ScoreField(lines[i]))

\* C12: a failed source yields an empty sequence and leaves the other source
\* alone: with the annotated file missing, or holding an atom line whose columns
\* [60,66) are no number, the pathogenicity sequence is empty; with the
\* structure file not fetched, or holding such a line, the pLDDT sequence is
\* empty; the other sequence is what its own source alone gives.
C12_FailedSourceEmpty ==
    ext_pc = "done" =>
        /\ (~am_pdb.exists \/ HasBadScoreField(am_pdb.lines)) => pathogenicity_scores = <<>>
        /\ (~response.ok \/ HasBadScoreField(response.lines)) => plddt_scores = <<>>
        /\ (response.ok /\ ~HasBadScoreField(response.lines))
               => Len(plddt_scores) = Cardinality({i \in 1..Len(response.lines) : IsAtomLine(response.lines[i])})
        /\ (am_pdb.exists /\ ~HasBadScoreField(am_pdb.lines))
               => Len(pathogenicity_scores) = Cardinality({i \in 1..Len(am_pdb.lines) : IsAtomLine(am_pdb.lines[i])})

\* ------------------------------------------------------- the score field

\* Text of the form <digits>.<two digits>.
FixedText(s) ==
    /\ Len(s) >= 4
    /\ s[Len(s) - 2] = "."
    /\ \A i \in 1..Len(s) : i # Len(s) - 2 => s[i] \in Digit

\* The value of such a text, in hundredths.
FixedHundredths(s) ==
    100 * DecimalValue(SubSeq(s, 1, Len(s) - 3)) + DecimalValue(SubSeq(s, Len(s) - 1, Len(s)))

\* C13: for every table score in [0,1] (steps of 0.0001) the text spliced into
\* columns [60,66) is exactly 6 characters: spaces followed by the score to two
\* decimal places (a value within 0.005 of the score; 0.1234 gives "  0.12"),
\* and a line of at least 66 characters keeps its length.
C13_SixCharField ==
    \A i \in 1..Len(out_file.lines) :
        LET in    == pdb_content.lines[i]
            out   == out_file.lines[i]
            t     == average_scores_file.tab
            field == Slice(out, ScoreStart, ScoreEnd)
            text  == LStrip(field)
        IN  HasScore(in, t) =>
                LET k == At(t, IntValue(ResidueField(in)))[1]
                IN  /\ Len(field) = 6
                    /\ FixedText(text)
                    /\ 100 * FixedHundredths(text) - k \in -50..50
                    /\ (k = 1234 => field = <<" ", " ", "0", ".", "1", "2">>)
                    /\ (Len(in) >= 66 => Len(out) = Len(in))

C13_Witness ==
    /\ pdb_pc = "done"
    /\ average_scores_file = Returned(<<NaN, Some(1234)>>)
    /\ Len(pdb_content.lines[1]) = 70
    /\ Len(out_file.lines) = 1
    /\ Slice(out_file.lines[1], ScoreStart, ScoreEnd) = <<" ", " ", "0", ".", "1", "2">>

\* -------------------------------------------------------------- downloader

\* No call of fetch_AFDB_data is repeated, every finished fetch took one call,
\* and an iteration whose fetch gave None wrote no file.
NeverRetried ==
    /\ \A i \in 1..Len(dl_ids) : fetch_calls[i] <= 1
    /\ \A i \in 1..Len(fetched) : fetch_calls[i] = 1
    /\ \A i \in 1..Len(downloaded) : fetched[i] = "None" => downloaded[i] = {}
    /\ dl_pc = "done" => Len(downloaded) = Len(dl_ids)

\* C14: the retry wrapper never retries -- fetch_AFDB_data is called exactly
\* once for each identifier the batch comes to; the batch terminates for every
\* identifier list, even if every fetch fails; and a failed fetch leads to no
\* file being downloaded for that identifier.
C14_NoRetryTerminates ==
    []NeverRetried /\ <>(dl_pc \in {"done", "aborted"})

C14_Witness ==
    /\ dl_pc = "done"
    /\ Len(dl_ids) >= 2
    /\ \A i \in 1..Len(dl_ids) : fetched[i] = "None" /\ fetch_calls[i] = 1 /\ downloaded[i] = {}

====
